---- MODULE Spec2Model ----
(***************************************************************************)
(* Model of src/app.py (HonestWorld "Integrity Protocol" Streamlit page):  *)
(* the response extractor parse_ai_response, the JSON decoder it calls,    *)
(* and the result rendering that consumes the decoded record.              *)
(*                                                                         *)
(* A text is a sequence of characters.  A character is a one-character     *)
(* string, except the backtick, which the TLA+ lexer does not accept in a  *)
(* string literal and which is written BT.                                 *)
(***************************************************************************)
EXTENDS Integers, Sequences, FiniteSets, TLC

VARIABLES
    response_text,  \* parse_ai_response: the argument
    text,           \* parse_ai_response: the local `text`
    pc,             \* position in the function that is running
    pattern,        \* parse_ai_response: index of the loop over json_patterns
    ret,            \* the value returned (a decoded JSON value), NoValue before
    exc,            \* the exception raised, NoExc while there is none
    result,         \* result rendering: the decoded record being rendered
    shown,          \* result rendering: the display fields written so far
    api_key,        \* whether "GEMINI_API_KEY" is in st.secrets
    page,           \* how the last script run ended: "start" before the first
    banner,         \* whether the last run showed the "API Key not found!" error
    user_location,  \* st.session_state.user_location, NoValue while not set
    captured_images, \* st.session_state.captured_images
    capture_step,   \* st.session_state.capture_step
    input_method,   \* the value of the input method radio
    uploaded_files, \* the value of the file uploader
    message,        \* what the scan handler showed in the last run
    presses,        \* number of presses of the scan button so far
    calls,          \* number of calls of analyze_product so far
    lookups,        \* number of calls of get_user_location so far
    call_args,      \* the arguments of the last call of analyze_product
    geo,            \* get_user_location: what requests.get does
    score_arg,      \* get_score_color: the argument `score`
    band            \* get_score_color: the value returned

parseVars == <<response_text, text, pc, pattern, ret, exc, result, shown>>

sessionVars ==
    <<api_key, page, banner, user_location, captured_images, capture_step,
      input_method, uploaded_files, message, presses, calls, lookups,
      call_args>>

pureVars == <<geo, score_arg, band>>

vars == <<parseVars, sessionVars, pureVars>>

-----------------------------------------------------------------------------
(* Characters *)

BT == "bt"
DQ == "\""

\* str.strip() and the regular expression class \s (the members the model uses)
PySpace == {" ", "\t", "\n", "\r"}

\* json.decoder.WHITESPACE: [ \t\n\r]*
JsonWs == {" ", "\t", "\n", "\r"}

\* characters below 0x20, which a strict JSON string must not contain
ControlChars == {"\t", "\n", "\r"}

Digits == {"0", "1", "2", "3", "4", "5", "6", "7", "8", "9"}

DigitVal(c) ==
    CASE c = "0" -> 0 [] c = "1" -> 1 [] c = "2" -> 2 [] c = "3" -> 3
      [] c = "4" -> 4 [] c = "5" -> 5 [] c = "6" -> 6 [] c = "7" -> 7
      [] c = "8" -> 8 [] c = "9" -> 9

\* s[i:] starts with lit
HasAt(s, i, lit) ==
    /\ i >= 1
    /\ i + Len(lit) - 1 <= Len(s)
    /\ \A k \in 1..Len(lit) : s[i + k - 1] = lit[k]

-----------------------------------------------------------------------------
(* json.loads: decoded values are tagged tuples                            *)
(*   <<"obj", f>>  f a function from keys (texts) to values                *)
(*   <<"arr", <<v1, ..., vn>>>>   <<"str", text>>   <<"num", n>>           *)
(*   <<"bool", b>>   <<"null">>                                            *)

NoValue == <<"none">>
NoExc == <<"none", "nowhere">>

Fail == [ok |-> FALSE, val |-> NoValue, end |-> 0]
Ok(v, e) == [ok |-> TRUE, val |-> v, end |-> e]

RECURSIVE SkipWs(_, _)
SkipWs(s, i) ==
    IF i <= Len(s) /\ s[i] \in JsonWs THEN SkipWs(s, i + 1) ELSE i

\* the index of the first DQ at or after i, 0 when there is none or when a
\* control character comes first (py_scanstring, strict)
RECURSIVE StringEnd(_, _)
StringEnd(s, i) ==
    IF i > Len(s) THEN 0
    ELSE IF s[i] = DQ THEN i
    ELSE IF s[i] \in ControlChars THEN 0
    ELSE StringEnd(s, i + 1)

\* scanstring(s, i): i is the index after the opening quote
ScanString(s, i) ==
    LET j == StringEnd(s, i)
    IN  IF j = 0 THEN Fail ELSE Ok(<<"str", SubSeq(s, i, j - 1)>>, j + 1)

RECURSIVE DigitsEnd(_, _)
DigitsEnd(s, i) ==
    IF i <= Len(s) /\ s[i] \in Digits THEN DigitsEnd(s, i + 1) ELSE i

RECURSIVE DigitsValue(_, _, _, _)
DigitsValue(s, i, e, acc) ==
    IF i >= e THEN acc ELSE DigitsValue(s, i + 1, e, 10 * acc + DigitVal(s[i]))

\* NUMBER_RE, integer part: -?(0|[1-9][0-9]*)
ScanNumber(s, i) ==
    LET neg == i <= Len(s) /\ s[i] = "-"
        d   == IF neg THEN i + 1 ELSE i
    IN  IF d > Len(s) \/ s[d] \notin Digits THEN Fail
        ELSE IF s[d] = "0" THEN Ok(<<"num", 0>>, d + 1)
        ELSE LET e == DigitsEnd(s, d)
                 n == DigitsValue(s, d, e, 0)
             IN  Ok(<<"num", IF neg THEN 0 - n ELSE n>>, e)

\* dict assignment d[key] = value: a repeated key keeps the last value
Put(f, key, v) ==
    [k \in (DOMAIN f) \cup {key} |-> IF k = key THEN v ELSE f[k]]

RECURSIVE ScanOnce(_, _)
RECURSIVE Members(_, _, _)
RECURSIVE Elements(_, _, _)

\* JSONObject's loop: i is the index after the opening quote of the next key
Members(s, i, acc) ==
    LET key == ScanString(s, i)
    IN  IF ~key.ok THEN Fail
        ELSE
        LET c == SkipWs(s, key.end)
        IN  IF c > Len(s) \/ s[c] # ":" THEN Fail
            ELSE
            LET v == ScanOnce(s, SkipWs(s, c + 1))
            IN  IF ~v.ok THEN Fail
                ELSE
                LET m    == SkipWs(s, v.end)
                    acc2 == Put(acc, key.val[2], v.val)
                IN  IF m > Len(s) THEN Fail
                    ELSE IF s[m] = "}" THEN Ok(<<"obj", acc2>>, m + 1)
                    ELSE IF s[m] # "," THEN Fail
                    ELSE
                    LET n == SkipWs(s, m + 1)
                    IN  IF n > Len(s) \/ s[n] # DQ THEN Fail
                        ELSE Members(s, n + 1, acc2)

\* JSONObject(s, i): i is the index after the opening brace
JSONObject(s, i) ==
    LET j == SkipWs(s, i)
    IN  IF j > Len(s) THEN Fail
        ELSE IF s[j] = "}" THEN Ok(<<"obj", <<>>>>, j + 1)
        ELSE IF s[j] # DQ THEN Fail
        ELSE Members(s, j + 1, <<>>)

\* JSONArray's loop: i is the index of the next value
Elements(s, i, acc) ==
    LET v == ScanOnce(s, i)
    IN  IF ~v.ok THEN Fail
        ELSE
        LET m    == SkipWs(s, v.end)
            acc2 == Append(acc, v.val)
        IN  IF m > Len(s) THEN Fail
            ELSE IF s[m] = "]" THEN Ok(<<"arr", acc2>>, m + 1)
            ELSE IF s[m] # "," THEN Fail
            ELSE Elements(s, SkipWs(s, m + 1), acc2)

\* JSONArray(s, i): i is the index after the opening bracket
JSONArray(s, i) ==
    LET j == SkipWs(s, i)
    IN  IF j > Len(s) THEN Fail
        ELSE IF s[j] = "]" THEN Ok(<<"arr", <<>>>>, j + 1)
        ELSE Elements(s, j, <<>>)

\* scanner.scan_once(s, i)
ScanOnce(s, i) ==
    IF i > Len(s) THEN Fail
    ELSE IF s[i] = DQ THEN ScanString(s, i + 1)
    ELSE IF s[i] = "{" THEN JSONObject(s, i + 1)
    ELSE IF s[i] = "[" THEN JSONArray(s, i + 1)
    ELSE IF HasAt(s, i, <<"n", "u", "l", "l">>) THEN Ok(<<"null">>, i + 4)
    ELSE IF HasAt(s, i, <<"t", "r", "u", "e">>) THEN Ok(<<"bool", TRUE>>, i + 4)
    ELSE IF HasAt(s, i, <<"f", "a", "l", "s", "e">>) THEN Ok(<<"bool", FALSE>>, i + 5)
    ELSE ScanNumber(s, i)

\* json.loads(s): one value, white space around it, nothing after it;
\* ok = FALSE stands for json.JSONDecodeError
json_loads(s) ==
    LET v == ScanOnce(s, SkipWs(s, 1))
    IN  IF ~v.ok THEN Fail
        ELSE IF SkipWs(s, v.end) # Len(s) + 1 THEN Fail
        ELSE v

\* what the page shows, one slot per piece of markup
Unset == <<"unset">>
Slots == {"product_type", "product_name", "score", "color", "status",
          "verdict", "summary", "claims", "deductions", "table",
          "components", "hero", "filler", "alt_name", "alt_why", "alt_score"}
NothingShown == [k \in Slots |-> Unset]

-----------------------------------------------------------------------------
(* str.strip() and re.search with re.DOTALL for the three json_patterns *)

RECURSIVE SkipSpace(_, _)
SkipSpace(s, i) ==
    IF i <= Len(s) /\ s[i] \in PySpace THEN SkipSpace(s, i + 1) ELSE i

\* the least index >= lo such that s[that index .. i-1] is white space
RECURSIVE BackSpace(_, _, _)
BackSpace(s, i, lo) ==
    IF i > lo /\ s[i - 1] \in PySpace THEN BackSpace(s, i - 1, lo) ELSE i

\* response_text.strip()
Strip(s) ==
    LET a == SkipSpace(s, 1)
    IN  IF a > Len(s) THEN <<>> ELSE SubSeq(s, a, BackSpace(s, Len(s) + 1, a) - 1)

Fence == <<BT, BT, BT>>
FenceJson == <<BT, BT, BT, "j", "s", "o", "n">>

Min(S) == CHOOSE x \in S : \A y \in S : x <= y
Max(S) == CHOOSE x \in S : \A y \in S : x >= y

NoMatch == [found |-> FALSE, group0 |-> <<>>, group1 |-> <<>>]

\* re.search(opener \s*(.*?)\s*```, s, re.DOTALL).  The match starts at the
\* leftmost opener that has a ``` after it; the first \s* is greedy and
\* takes all the white space after the opener (no white space is a
\* backtick, so it never has to give any back); (.*?) then ends at the
\* first place from which white space and ``` follow, which is the start of
\* the white space in front of the first ``` at or after that point.
FenceSearch(opener, s) ==
    LET closers == {c \in 1..Len(s) : HasAt(s, c, Fence)}
        starts  == {i \in 1..Len(s) : /\ HasAt(s, i, opener)
                                      /\ \E c \in closers : c >= i + Len(opener)}
    IN  IF starts = {} THEN NoMatch
        ELSE
        LET i == Min(starts)
            k == SkipSpace(s, i + Len(opener))
            c == Min({x \in closers : x >= k})
            j == BackSpace(s, c, k)
        IN  [found  |-> TRUE,
             group0 |-> SubSeq(s, i, c + Len(Fence) - 1),
             group1 |-> SubSeq(s, k, j - 1)]

\* mutant: the pattern \{.*?\}, which ends at the first "}" after the "{"
BraceSearch_NonGreedy(s) ==
    LET opens == {i \in 1..Len(s) : s[i] = "{"}
    IN  IF opens = {} \/ ~\E j \in 1..Len(s) : j > Min(opens) /\ s[j] = "}"
        THEN NoMatch
        ELSE [found  |-> TRUE,
              group0 |-> SubSeq(s, Min(opens),
                                Min({j \in 1..Len(s) : j > Min(opens) /\ s[j] = "}"})),
              group1 |-> <<>>]

\* re.search(\{.*\}, s, re.DOTALL): from the leftmost "{" that has a "}"
\* after it, greedily to the last "}" of the text
BraceSearch(s) ==
    LET opens  == {i \in 1..Len(s) : s[i] = "{"}
        closes == {i \in 1..Len(s) : s[i] = "}"}
    IN  IF opens = {} \/ closes = {} THEN NoMatch
        ELSE IF Max(closes) < Min(opens) THEN NoMatch
        ELSE [found  |-> TRUE,
              group0 |-> SubSeq(s, Min(opens), Max(closes)),
              group1 |-> <<>>]

\* mutant: the brace pattern listed first
json_patterns_BraceFirst == <<"brace", "fence_json", "fence">>

\* the list json_patterns, in the order the loop tries it
json_patterns == <<"fence_json", "fence", "brace">>

\* re.search(pattern, text, re.DOTALL)
re_search(p, s) ==
    CASE p = "fence_json" -> FenceSearch(FenceJson, s)
      [] p = "fence"      -> FenceSearch(Fence, s)
      [] p = "brace"      -> BraceSearch(s)

\* mutant: match.group(0) for every pattern
json_str_Group0(p, m) == m.group0

\* json_str = match.group(1) if the pattern holds ``` else match.group(0)
json_str(p, m) ==
    IF p \in {"fence_json", "fence"} THEN m.group1 ELSE m.group0

-----------------------------------------------------------------------------
(* parse_ai_response, one action per step of its body *)

\* text = response_text.strip()
StripText ==
    /\ pc = "strip"
    /\ text' = Strip(response_text)
    /\ pattern' = 1
    /\ pc' = "loop"
    /\ UNCHANGED <<response_text, ret, exc, result, shown>>
    /\ UNCHANGED <<sessionVars, pureVars>>

\* where the loop goes after the body of one iteration ends without a return
AfterPattern(i) == IF i + 1 > Len(json_patterns) THEN "last" ELSE "loop"

\* mutant: no try/except around json.loads in the loop: the decoder's
\* JSONDecodeError (a ValueError) leaves the function
TryPattern_NoExcept ==
    /\ pc = "loop"
    /\ pattern <= Len(json_patterns)
    /\ LET p   == json_patterns[pattern]
           m   == re_search(p, text)
           dec == json_loads(json_str(p, m))
       IN  IF m.found /\ dec.ok
           THEN /\ ret' = dec.val
                /\ pc' = "returned"
                /\ UNCHANGED <<pattern, exc>>
           ELSE IF m.found
           THEN /\ exc' = <<"ValueError", "parse_ai_response">>
                /\ pc' = "raised"
                /\ UNCHANGED <<pattern, ret>>
           ELSE /\ pattern' = pattern + 1
                /\ pc' = AfterPattern(pattern)
                /\ UNCHANGED <<ret, exc>>
    /\ UNCHANGED <<response_text, text, result, shown>>
    /\ UNCHANGED <<sessionVars, pureVars>>

\* one iteration of `for pattern in json_patterns`
TryPattern ==
    /\ pc = "loop"
    /\ pattern <= Len(json_patterns)
    /\ LET p   == json_patterns[pattern]
           m   == re_search(p, text)
           dec == json_loads(json_str(p, m))
       IN  IF m.found /\ dec.ok
           THEN /\ ret' = dec.val
                /\ pc' = "returned"
                /\ UNCHANGED pattern
           ELSE /\ pattern' = pattern + 1
                /\ pc' = AfterPattern(pattern)
                /\ UNCHANGED ret
    /\ UNCHANGED <<response_text, text, exc, result, shown>>
    /\ UNCHANGED <<sessionVars, pureVars>>

\* mutant: a sentinel result in place of the ValueError
LastAttempt_Sentinel ==
    /\ pc = "last"
    /\ LET dec == json_loads(text)
       IN  /\ ret' = IF dec.ok THEN dec.val
                     ELSE <<"obj", [k \in {<<"s", "c", "o", "r", "e">>} |-> <<"num", 0>>]>>
           /\ pc' = "returned"
           /\ UNCHANGED exc
    /\ UNCHANGED <<response_text, text, pattern, result, shown>>
    /\ UNCHANGED <<sessionVars, pureVars>>

\* the last attempt: json.loads(text), or ValueError
LastAttempt ==
    /\ pc = "last"
    /\ LET dec == json_loads(text)
       IN  IF dec.ok
           THEN /\ ret' = dec.val
                /\ pc' = "returned"
                /\ UNCHANGED exc
           ELSE /\ exc' = <<"ValueError", "parse_ai_response">>
                /\ pc' = "raised"
                /\ UNCHANGED ret
    /\ UNCHANGED <<response_text, text, pattern, result, shown>>
    /\ UNCHANGED <<sessionVars, pureVars>>

-----------------------------------------------------------------------------
(* The response texts the extractor is applied to *)

MaxPieces == 3

OBJ   == <<"{", DQ, "a", DQ, ":", "1", "}">>
OBJ2  == <<"{", DQ, "b", DQ, ":", "5", "}">>
TRUNC == <<"{", DQ, "a", DQ, ":", "1">>
NUM   == <<"5">>
ARR   == <<"[", "1", "]">>
HI    == <<"h", "i">>
NL    == <<"\n">>
SOPEN == <<"{", DQ, "s", DQ, ":", DQ>>
SCLOSE == <<DQ, "}">>
NEST  == <<"{", DQ, "d", DQ, ":", "[", "{", DQ, "p", DQ, ":", "5", "}", "]",
           ",", DQ, "v", DQ, ":", "1", "}">>

Pieces == {FenceJson, Fence, OBJ, TRUNC, NUM, HI, NL, SOPEN, SCLOSE}

RECURSIVE PieceTexts(_)
PieceTexts(n) ==
    IF n = 0 THEN {<<>>}
    ELSE LET T == PieceTexts(n - 1)
         IN  T \cup {t \o p : t \in T, p \in Pieces}

Bodies == {OBJ, OBJ2, TRUNC, NUM, ARR, NEST}
Prose  == {<<>>, HI, HI \o NL}
\* commentary that holds braces of its own
BraceProse == <<"{", "h", "i", "}">>
Openers == {FenceJson, Fence}

Fenced(opener, body) == opener \o NL \o body \o NL \o Fence

\* commentary, one fenced block, commentary
OneFenceTexts ==
    {pre \o Fenced(o, b) \o post :
        pre \in Prose \cup {BraceProse}, o \in Openers, b \in Bodies,
        post \in Prose \cup {BraceProse}}

\* two sequential fenced blocks
TwoFenceTexts ==
    {pre \o Fenced(o1, b1) \o NL \o Fenced(o2, b2) :
        pre \in {<<>>, HI}, o1 \in Openers, b1 \in Bodies,
        o2 \in Openers, b2 \in Bodies}

\* prose, one candidate object, prose
ProseTexts ==
    {pre \o b \o post : pre \in Prose \cup {BraceProse}, b \in Bodies,
                         post \in {<<>>, NL \o HI, BraceProse}}

\* a JSON object whose one string value holds the pieces
WrappedTexts == {SOPEN \o t \o SCLOSE : t \in PieceTexts(MaxPieces)}

ResponseTexts ==
    PieceTexts(MaxPieces) \cup WrappedTexts \cup OneFenceTexts
        \cup TwoFenceTexts \cup ProseTexts

\* the session variables while no session is running
SessionIdle ==
    /\ api_key = TRUE
    /\ page = "start"
    /\ banner = FALSE
    /\ user_location = NoValue
    /\ captured_images = <<>>
    /\ capture_step = 1
    /\ input_method = "camera"
    /\ uploaded_files = <<>>
    /\ message = "none"
    /\ presses = 0
    /\ calls = 0
    /\ lookups = 0
    /\ call_args = NoValue

\* the variables of get_user_location and get_score_color while neither runs
PureIdle ==
    /\ geo = NoValue
    /\ score_arg = 0
    /\ band = NoValue

InitParse ==
    /\ response_text \in ResponseTexts
    /\ text = <<>>
    /\ pc = "strip"
    /\ pattern = 0
    /\ ret = NoValue
    /\ exc = NoExc
    /\ result = NoValue
    /\ shown = NothingShown
    /\ SessionIdle
    /\ PureIdle

NextParse == StripText \/ TryPattern \/ LastAttempt

SpecParse == InitParse /\ [][NextParse]_vars

-----------------------------------------------------------------------------
(* Result rendering.  A rendered record is a decoded object whose keys and *)
(* strings are written as whole strings; Python's None is <<"null">>.      *)

PyNone == <<"null">>
Str(x) == <<"str", x>>
Num(n) == <<"num", n>>
Arr(q) == <<"arr", q>>
Obj(f) == <<"obj", f>>

IsStr(v)  == v[1] = "str"
IsDict(v) == v[1] = "obj"
IsList(v) == v[1] = "arr"
IsNum(v)  == v[1] \in {"num", "bool"}

\* bool(v)
Truthy(v) ==
    CASE v[1] = "null" -> FALSE
      [] v[1] = "bool" -> v[2]
      [] v[1] = "num"  -> v[2] # 0
      [] v[1] = "str"  -> v[2] # ""
      [] v[1] = "arr"  -> v[2] # <<>>
      [] v[1] = "obj"  -> DOMAIN v[2] # {}

\* d.get(key, default) on a dict
dict_get(d, key, default) ==
    IF key \in DOMAIN d[2] THEN d[2][key] ELSE default

\* str.upper() on the strings of the model
Upper(x) ==
    CASE x = "Unknown" -> "UNKNOWN"
      [] x = "soap"    -> "SOAP"
      [] OTHER         -> x

\* a list's [:n]; the first characters of a string are kept as
\* <<"chars", string>>, since the model's strings are whole
Take(q, n) == SubSeq(q, 1, IF Len(q) < n THEN Len(q) ELSE n)

Raise(type, where) == [ok |-> FALSE, exc |-> <<type, where>>, out |-> <<>>]
Done(out) == [ok |-> TRUE, exc |-> NoExc, out |-> out]

\* mutant: the green band starts above 80 and the orange band above 50
get_score_color_Strict(score) ==
    IF score > 80 THEN <<"green", "HONEST PRODUCT">>
    ELSE IF score > 50 THEN <<"orange", "SUSPICIOUS">>
    ELSE <<"red", "HIGH DECEPTION">>

\* get_score_color(score) for a number
get_score_color(score) ==
    IF score >= 80 THEN <<"green", "HONEST PRODUCT">>
    ELSE IF score >= 50 THEN <<"orange", "SUSPICIOUS">>
    ELSE <<"red", "HIGH DECEPTION">>

\* the number a value compares as in `score >= 80` (True is 1, False is 0)
AsNumber(v) == IF v[1] = "bool" THEN (IF v[2] THEN 1 ELSE 0) ELSE v[2]

\* render_score_card(score, verdict)
render_score_card(score, verdict) ==
    IF ~IsNum(score) THEN Raise("TypeError", "render_score_card")
    ELSE LET c == get_score_color(AsNumber(score))
         IN  Done([score |-> score, color |-> Str(c[1]), status |-> Str(c[2]),
                   verdict |-> verdict])

\* mutant: result['product_type'] and result['product_name'], no default
render_identification_NoDefault(r) ==
    IF ~{"product_type", "product_name"} \subseteq DOMAIN r[2]
    THEN Raise("KeyError", "identification")
    ELSE IF ~IsStr(r[2]["product_type"]) THEN Raise("AttributeError", "identification")
    ELSE Done([product_type |-> Str(Upper(r[2]["product_type"][2])),
               product_name |-> r[2]["product_name"]])

\* the product identification block
render_identification(r) ==
    LET product_type == dict_get(r, "product_type", Str("Unknown"))
        product_name == dict_get(r, "product_name", Str("Unknown Product"))
    IN  IF ~IsStr(product_type) THEN Raise("AttributeError", "identification")
        ELSE Done([product_type |-> Str(Upper(product_type[2])),
                   product_name |-> product_name])

\* the summary box and the marketing claims list
render_summary(r) ==
    LET summary == dict_get(r, "honesty_summary", Str("No summary available"))
        claims  == dict_get(r, "marketing_claims", PyNone)
    IN  IF ~Truthy(claims)
        THEN Done([summary |-> summary, claims |-> Arr(<<>>)])
        ELSE IF IsStr(claims)
        THEN Done([summary |-> summary, claims |-> <<"chars", claims[2]>>])
        ELSE IF ~IsList(claims) THEN Raise("TypeError", "marketing_claims")
        ELSE Done([summary |-> summary, claims |-> Arr(Take(claims[2], 5))])

\* one deduction card
DeductionCard(d) ==
    [points |-> dict_get(d, "points", Num(0)),
     law    |-> dict_get(d, "law", Str("Unknown Law")),
     reason |-> dict_get(d, "reason", Str("No reason provided"))]

\* render_deductions_table(deductions)
render_deductions_table(deductions) ==
    IF ~Truthy(deductions)
    THEN Done([deductions |-> Str("No integrity violations detected"),
               table |-> PyNone])
    ELSE IF ~IsList(deductions)
    THEN Raise(IF IsNum(deductions) THEN "TypeError" ELSE "AttributeError",
               "render_deductions_table")
    ELSE IF \E i \in 1..Len(deductions[2]) : ~IsDict(deductions[2][i])
    THEN Raise("AttributeError", "render_deductions_table")
    ELSE LET ds   == deductions[2]
             cols == UNION {DOMAIN ds[i][2] : i \in 1..Len(ds)}
         IN  Done([deductions |-> Arr([i \in 1..Len(ds) |-> DeductionCard(ds[i])]),
                   \* the DataFrame is shown unless it has no column
                   table |-> IF cols = {} THEN PyNone ELSE Arr(ds)])

\* st.metric(label, value) takes an int, a float, a str or None
MetricValue(v) == v[1] \in {"num", "bool", "str", "null"}

\* the product analysis block
render_product_analysis(r) ==
    LET pa == dict_get(r, "product_analysis", PyNone)
    IN  IF ~Truthy(pa) THEN Done(<<>>)
        ELSE IF ~IsDict(pa) THEN Raise("AttributeError", "product_analysis")
        ELSE
        LET components == dict_get(pa, "main_components", Arr(<<>>))
            hero_pos   == dict_get(pa, "hero_feature_position", Str("N/A"))
            filler     == dict_get(pa, "cheap_filler_detected", Str("None"))
        IN  IF ~(IsList(components) \/ IsStr(components))
            THEN Raise("TypeError", "main_components")
            ELSE IF ~MetricValue(hero_pos) THEN Raise("TypeError", "st.metric")
            ELSE IF ~MetricValue(filler) THEN Raise("TypeError", "st.metric")
            ELSE Done([components |-> IF IsStr(components)
                                      THEN <<"chars", components[2]>>
                                      ELSE Arr(Take(components[2], 5)),
                       hero       |-> hero_pos,
                       filler     |-> IF filler # Str("None") THEN filler
                                      ELSE Str("None Detected")])

\* mutant: no isinstance(alternative_data, str) branch
render_alternative_DictOnly(alternative_data) ==
    IF ~IsDict(alternative_data)
    THEN Raise("AttributeError", "render_alternative")
    ELSE LET est_score == dict_get(alternative_data, "estimated_score", PyNone)
         IN  Done([alt_name  |-> dict_get(alternative_data, "product_name",
                                          Str("No alternative found")),
                   alt_why   |-> dict_get(alternative_data, "why_more_honest",
                                          Str("")),
                   alt_score |-> IF Truthy(est_score) THEN est_score ELSE PyNone])

\* render_alternative(alternative_data, user_location)
render_alternative(alternative_data) ==
    IF IsStr(alternative_data)
    THEN Done([alt_name |-> alternative_data, alt_why |-> Str(""),
               alt_score |-> PyNone])
    ELSE IF ~IsDict(alternative_data)
    THEN Raise("AttributeError", "render_alternative")
    ELSE LET est_score == dict_get(alternative_data, "estimated_score", PyNone)
         IN  Done([alt_name  |-> dict_get(alternative_data, "product_name",
                                          Str("No alternative found")),
                   alt_why   |-> dict_get(alternative_data, "why_more_honest",
                                          Str("")),
                   \* the score badge is drawn only for a truthy est_score
                   alt_score |-> IF Truthy(est_score) THEN est_score ELSE PyNone])

\* the slots of `shown` overwritten by those of `out`
Show(old, out) ==
    [k \in Slots |-> IF k \in DOMAIN out THEN out[k] ELSE old[k]]

\* one block of the rendering: its slots are written and the next block
\* follows, or its exception leaves the try block
RenderStep(here, r, next) ==
    /\ pc = here
    /\ IF r.ok
       THEN /\ shown' = Show(shown, r.out)
            /\ pc' = next
            /\ UNCHANGED exc
       ELSE /\ exc' = r.exc
            /\ pc' = "raised"
            /\ UNCHANGED shown
    /\ UNCHANGED <<response_text, text, pattern, ret, result>>
    /\ UNCHANGED <<sessionVars, pureVars>>

RenderIdentification ==
    RenderStep("identification", render_identification(result), "score")

RenderScoreCard ==
    RenderStep("score",
               render_score_card(dict_get(result, "score", Num(0)),
                                 dict_get(result, "verdict", Str("Unknown"))),
               "summary")

RenderSummary ==
    RenderStep("summary", render_summary(result), "deductions")

RenderDeductions ==
    RenderStep("deductions",
               render_deductions_table(dict_get(result, "deductions", Arr(<<>>))),
               "analysis")

RenderProductAnalysis ==
    RenderStep("analysis", render_product_analysis(result), "alternative")

RenderAlternative ==
    RenderStep("alternative",
               render_alternative(dict_get(result, "better_alternative",
                                           Str("No alternative suggested"))),
               "rendered")

-----------------------------------------------------------------------------
(* The records the rendering is applied to: every subset of the fields of *)
(* an AnalysisResult, and records with one field of another type          *)

\* the restriction of record f to the keys S
Sub(f, S) == [k \in S |-> f[k]]

ScalarFields ==
    [product_type     |-> Str("soap"),
     product_name     |-> Str("Pure Soap"),
     score            |-> Num(60),
     verdict          |-> Str("ok"),
     honesty_summary  |-> Str("mostly honest"),
     marketing_claims |-> Arr(<<Str("natural"), Str("pure")>>)]

DeductionFields ==
    [law |-> Str("LAW 1"), reason |-> Str("fairy dusting"), points |-> Num(-20)]

AnalysisFields ==
    [main_components       |-> Arr(<<Str("a"), Str("b"), Str("c"), Str("d"),
                                     Str("e"), Str("f")>>),
     hero_feature_position |-> Str("7"),
     cheap_filler_detected |-> Str("palm oil")]

AlternativeFields ==
    [product_name    |-> Str("Brand X Product"),
     why_more_honest |-> Str("fewer claims"),
     estimated_score |-> Num(90)]

Absent == <<"absent">>

DeductionsChoices ==
    {Absent, Arr(<<>>)}
      \cup {Arr(<<Obj(Sub(DeductionFields, S))>>) : S \in SUBSET DOMAIN DeductionFields}
      \cup {Arr(<<Obj(DeductionFields), Obj(Sub(DeductionFields, S))>>) :
               S \in {{}, {"law"}}}

AnalysisChoices ==
    {Absent, Obj([AnalysisFields EXCEPT !.cheap_filler_detected = Str("None")])}
      \cup {Obj(Sub(AnalysisFields, S)) : S \in SUBSET DOMAIN AnalysisFields}

AlternativeChoices ==
    {Absent, Str("Brand X Product"),
     Obj([AlternativeFields EXCEPT !.estimated_score = Num(0)])}
      \cup {Obj(Sub(AlternativeFields, S)) : S \in SUBSET DOMAIN AlternativeFields}

\* the record with the scalar fields S and the three structured fields
MakeResult(S, ded, pa, alt) ==
    LET keys == S \cup (IF ded = Absent THEN {} ELSE {"deductions"})
                  \cup (IF pa = Absent THEN {} ELSE {"product_analysis"})
                  \cup (IF alt = Absent THEN {} ELSE {"better_alternative"})
    IN  Obj([k \in keys |->
              CASE k = "deductions"         -> ded
                [] k = "product_analysis"   -> pa
                [] k = "better_alternative" -> alt
                [] OTHER                    -> ScalarFields[k]])

SchemaResults ==
    {MakeResult(S, ded, pa, alt) :
        S \in SUBSET DOMAIN ScalarFields, ded \in DeductionsChoices,
        pa \in AnalysisChoices, alt \in AlternativeChoices}

FullResult ==
    [product_type       |-> ScalarFields.product_type,
     product_name       |-> ScalarFields.product_name,
     score              |-> ScalarFields.score,
     verdict            |-> ScalarFields.verdict,
     honesty_summary    |-> ScalarFields.honesty_summary,
     marketing_claims   |-> ScalarFields.marketing_claims,
     deductions         |-> Arr(<<Obj(DeductionFields)>>),
     product_analysis   |-> Obj(AnalysisFields),
     better_alternative |-> Obj(AlternativeFields)]

\* what the upstream model may send in place of the requested shape
OffSchemaResults ==
    {Obj([FullResult EXCEPT !.product_type = v]) : v \in {Num(7), PyNone}}
      \cup {Obj([FullResult EXCEPT !.score = v]) : v \in {Str("high"), PyNone}}
      \cup {Obj([FullResult EXCEPT !.marketing_claims = v]) :
               v \in {Num(3), Str("natural")}}
      \cup {Obj([FullResult EXCEPT !.deductions = v]) :
               v \in {Num(5), Str("none"), Arr(<<Num(1)>>), PyNone}}
      \cup {Obj([FullResult EXCEPT !.product_analysis = v]) :
               v \in {Str("n/a"), Arr(<<Num(1)>>),
                      Obj([AnalysisFields EXCEPT !.main_components = Num(2)]),
                      Obj([AnalysisFields EXCEPT !.hero_feature_position = Arr(<<>>)])}}
      \cup {Obj([FullResult EXCEPT !.better_alternative = v]) :
               v \in {PyNone, Num(1), Arr(<<Str("Brand X Product")>>), Str("")}}

RenderResults == SchemaResults \cup OffSchemaResults

InitRender ==
    /\ result \in RenderResults
    /\ response_text = <<>>
    /\ text = <<>>
    /\ pc = "identification"
    /\ pattern = 0
    /\ ret = NoValue
    /\ exc = NoExc
    /\ shown = NothingShown
    /\ SessionIdle
    /\ PureIdle

NextRender ==
    \/ RenderIdentification
    \/ RenderScoreCard
    \/ RenderSummary
    \/ RenderDeductions
    \/ RenderProductAnalysis
    \/ RenderAlternative

SpecRender == InitRender /\ [][NextRender]_vars

-----------------------------------------------------------------------------
(* Claims about parse_ai_response, checked under SpecParse *)

Terminal == pc \in {"returned", "raised"}

\* the four candidates of a trimmed text t, in the order the specification
\* lists them: [found, str]
CandidateA(t) == LET m == FenceSearch(FenceJson, t) IN [found |-> m.found, str |-> m.group1]
CandidateB(t) == LET m == FenceSearch(Fence, t) IN [found |-> m.found, str |-> m.group1]
CandidateC(t) == LET m == BraceSearch(t) IN [found |-> m.found, str |-> m.group0]
CandidateD(t) == [found |-> TRUE, str |-> t]
Candidate(k, t) ==
    CASE k = 1 -> CandidateA(t) [] k = 2 -> CandidateB(t)
      [] k = 3 -> CandidateC(t) [] k = 4 -> CandidateD(t)

\* strategy k yields a text that decodes
Decodable(k, t) == Candidate(k, t).found /\ json_loads(Candidate(k, t).str).ok
\* strategy k matches and its text does not decode
MatchedInvalid(k, t) == Candidate(k, t).found /\ ~json_loads(Candidate(k, t).str).ok

NoStrategyDecodes(t) == \A k \in 1..4 : ~Decodable(k, t)

Trimmed == Strip(response_text)

\* the keys and the string of the sentinel result
KeyScore   == <<"s", "c", "o", "r", "e">>
KeyVerdict == <<"v", "e", "r", "d", "i", "c", "t">>
StrError   == <<"E", "r", "r", "o", "r">>
IsSentinel(v) ==
    /\ v[1] = "obj"
    /\ {KeyScore, KeyVerdict} \subseteq DOMAIN v[2]
    /\ v[2][KeyScore] = <<"num", 0>>
    /\ v[2][KeyVerdict] = <<"str", StrError>>

\* C1 as stated: when no extraction strategy decodes, parse_ai_response does
\* not raise and returns the sentinel result (score = 0, verdict = "Error").
C1_SentinelNeverRaises ==
    (Terminal /\ NoStrategyDecodes(Trimmed)) => (pc = "returned" /\ IsSentinel(ret))

\* C1 as amended: when no extraction strategy decodes, parse_ai_response
\* raises ValueError to its caller and returns nothing; it raises in no
\* other case.
C1_RaisesValueError ==
    /\ (Terminal /\ NoStrategyDecodes(Trimmed))
          => (pc = "raised" /\ exc = <<"ValueError", "parse_ai_response">>
                /\ ret = NoValue)
    /\ pc = "raised" => NoStrategyDecodes(Trimmed)

\* C1 witness: the truncated object has been given and ValueError raised
C1_Witness ==
    /\ response_text = TRUNC
    /\ pc = "raised"
    /\ MatchedInvalid(4, Trimmed)

\* C2: every value parse_ai_response returns is a JSON object.
C2_ReturnsObject == pc = "returned" => ret[1] = "obj"

\* the result of the first strategy, in the order a, b, c, d, that decodes
FirstDecodable(t) == Min({k \in 1..4 : Decodable(k, t)})

\* C3: the strategies are tried in the order a (fence labeled json), b (any
\* fence), c (brace span), d (whole trimmed text) and the first that decodes
\* wins: the value returned is the decoding of the first decodable
\* candidate, and extraction ends at that strategy's step.
C3_FirstMatchWins ==
    pc = "returned" =>
        /\ ~NoStrategyDecodes(Trimmed)
        /\ LET k == FirstDecodable(Trimmed)
           IN  /\ ret = json_loads(Candidate(k, Trimmed).str).val
               /\ pattern = k

\* C3 witness: the brace span is returned after both fence strategies
\* matched and failed to decode
C3_Witness ==
    /\ pc = "returned"
    /\ pattern = 3
    /\ MatchedInvalid(1, Trimmed)
    /\ MatchedInvalid(2, Trimmed)

\* a text of two sequential blocks fenced as json, with bodies b1 and b2
TwoJsonBlocks(t, pre, b1, b2) ==
    t = pre \o Fenced(FenceJson, b1) \o NL \o Fenced(FenceJson, b2)

\* C4: of two sequential fenced JSON blocks, the object of the first block
\* that parses is returned: the first when it is valid, the second when the
\* first block's body is not valid JSON.
C4_FirstParsedBlock ==
    \A pre \in {<<>>, HI}, b1 \in Bodies, b2 \in Bodies :
        (Terminal /\ TwoJsonBlocks(response_text, pre, b1, b2)) =>
            /\ json_loads(b1).ok
                  => (pc = "returned" /\ ret = json_loads(b1).val)
            /\ (~json_loads(b1).ok /\ json_loads(b2).ok)
                  => (pc = "returned" /\ ret = json_loads(b2).val)

\* C5: a raw text that is exactly one valid JSON object is returned with
\* all its fields.
C5_CleanObjectRoundTrip ==
    LET whole == json_loads(response_text)
    IN  (Terminal /\ whole.ok /\ whole.val[1] = "obj")
            => (pc = "returned" /\ ret = whole.val)

\* commentary, one fence labeled json with body b, commentary
OneJsonFence(t, pre, b, post) == t = pre \o Fenced(FenceJson, b) \o post

IsObjectText(b) == json_loads(b).ok /\ json_loads(b).val[1] = "obj"

C7_GreedyBraceSpan ==
    \A pre \in Prose, post \in {<<>>, NL \o HI} :
        response_text = pre \o NEST \o post =>
            /\ pc # "raised"
            /\ pc = "returned" => (ret = json_loads(NEST).val /\ pattern = 3)

\* C7 witness: the nested object between two pieces of prose is returned
C7_Witness ==
    /\ response_text = HI \o NL \o NEST \o NL \o HI
    /\ pc = "returned"
    /\ ret[2][<<"d">>] = <<"arr", << <<"obj", [k \in {<<"p">>} |-> <<"num", 5>>]>> >> >>

\* C8: a fenced or brace-span candidate that matches and is not valid JSON
\* neither ends extraction nor raises at its step; when a later strategy's
\* candidate is valid, that candidate's object is the result.
C8_InvalidFallsThrough ==
    \A k \in 1..3 :
        MatchedInvalid(k, Trimmed) =>
            /\ ~(Terminal /\ pattern = k)
            /\ \A j \in (k + 1)..4 :
                  (Terminal /\ Decodable(j, Trimmed)
                     /\ \A i \in 1..(j - 1) : ~Decodable(i, Trimmed))
                      => (pc = "returned" /\ ret = json_loads(Candidate(j, Trimmed).str).val)

\* C8 witness: a truncated object in a json fence, then a valid object: the
\* fence candidates are invalid and the whole run ends with a result
C8_Witness ==
    /\ pc = "returned"
    /\ MatchedInvalid(1, Trimmed)
    /\ Decodable(3, Trimmed)

-----------------------------------------------------------------------------
(* Claims about the result rendering, checked under SpecRender *)

Has(d, k) == k \in DOMAIN d[2]

\* the value render_alternative is called with
AlternativeArgument ==
    dict_get(result, "better_alternative", Str("No alternative suggested"))

\* C9: render_alternative gives both shapes of better_alternative the same
\* display fields: a bare string s shows product_name = s, an empty
\* explanation and no estimated score; a record shows its product_name and
\* why_more_honest, 'No alternative found' and '' standing for an absent key.
C9_AlternativeNormalized ==
    LET alt == AlternativeArgument
    IN  /\ (IsStr(alt) \/ IsDict(alt)) => exc[2] # "render_alternative"
        /\ (pc = "rendered" /\ IsStr(alt)) =>
              /\ shown.alt_name = alt
              /\ shown.alt_why = Str("")
              /\ shown.alt_score = PyNone
        /\ (pc = "rendered" /\ IsDict(alt)) =>
              /\ shown.alt_name = IF Has(alt, "product_name")
                                  THEN alt[2]["product_name"]
                                  ELSE Str("No alternative found")
              /\ shown.alt_why = IF Has(alt, "why_more_honest")
                                 THEN alt[2]["why_more_honest"]
                                 ELSE Str("")

\* C9 witness: the bare string "Brand X Product" has been rendered
C9_Witness ==
    /\ pc = "rendered"
    /\ Has(result, "better_alternative")
    /\ result[2]["better_alternative"] = Str("Brand X Product")
    /\ shown.alt_name = Str("Brand X Product")
    /\ shown.alt_why = Str("")

\* the types the data model gives the fields that are present
IsStrList(v) == IsList(v) /\ \A i \in 1..Len(v[2]) : IsStr(v[2][i])
IsDeduction(d) ==
    /\ IsDict(d)
    /\ Has(d, "law") => IsStr(d[2]["law"])
    /\ Has(d, "reason") => IsStr(d[2]["reason"])
    /\ Has(d, "points") => d[2]["points"][1] = "num"
IsAnalysis(a) ==
    /\ IsDict(a)
    /\ Has(a, "main_components") => IsStrList(a[2]["main_components"])
    /\ Has(a, "hero_feature_position") => IsStr(a[2]["hero_feature_position"])
    /\ Has(a, "cheap_filler_detected") => IsStr(a[2]["cheap_filler_detected"])
IsAlternative(a) ==
    \/ IsStr(a)
    \/ /\ IsDict(a)
       /\ Has(a, "product_name") => IsStr(a[2]["product_name"])
       /\ Has(a, "why_more_honest") => IsStr(a[2]["why_more_honest"])
       /\ Has(a, "estimated_score") => a[2]["estimated_score"][1] = "num"
FollowsSchema(r) ==
    /\ IsDict(r)
    /\ \A k \in {"product_type", "product_name", "verdict", "honesty_summary"} :
          Has(r, k) => IsStr(r[2][k])
    /\ Has(r, "score") => r[2]["score"][1] = "num"
    /\ Has(r, "marketing_claims") => IsStrList(r[2]["marketing_claims"])
    /\ Has(r, "deductions") =>
          /\ IsList(r[2]["deductions"])
          /\ \A i \in 1..Len(r[2]["deductions"][2]) :
                IsDeduction(r[2]["deductions"][2][i])
    /\ Has(r, "product_analysis") => IsAnalysis(r[2]["product_analysis"])
    /\ Has(r, "better_alternative") => IsAlternative(r[2]["better_alternative"])

\* the page shows the default of every field the record does not hold
DefaultsShown ==
    /\ ~Has(result, "product_type") => shown.product_type = Str("UNKNOWN")
    /\ ~Has(result, "product_name") => shown.product_name = Str("Unknown Product")
    /\ ~Has(result, "score") =>
          (shown.score = Num(0) /\ shown.color = Str("red"))
    /\ ~Has(result, "verdict") => shown.verdict = Str("Unknown")
    /\ ~Has(result, "honesty_summary") =>
          shown.summary = Str("No summary available")
    /\ ~Has(result, "marketing_claims") => shown.claims = Arr(<<>>)
    /\ ~Has(result, "deductions") =>
          shown.deductions = Str("No integrity violations detected")
    /\ (Has(result, "deductions") /\ Truthy(result[2]["deductions"])) =>
          LET ds == result[2]["deductions"][2]
          IN  /\ shown.deductions[1] = "arr"
              /\ Len(shown.deductions[2]) = Len(ds)
              /\ \A i \in 1..Len(ds) :
                    /\ ~Has(ds[i], "points") => shown.deductions[2][i].points = Num(0)
                    /\ ~Has(ds[i], "law") =>
                          shown.deductions[2][i].law = Str("Unknown Law")
                    /\ ~Has(ds[i], "reason") =>
                          shown.deductions[2][i].reason = Str("No reason provided")
    /\ ~Has(result, "product_analysis") =>
          (shown.components = Unset /\ shown.hero = Unset /\ shown.filler = Unset)
    /\ (Has(result, "product_analysis") /\ Truthy(result[2]["product_analysis"])) =>
          LET pa == result[2]["product_analysis"]
          IN  /\ ~Has(pa, "main_components") => shown.components = Arr(<<>>)
              /\ ~Has(pa, "hero_feature_position") => shown.hero = Str("N/A")
              /\ ~Has(pa, "cheap_filler_detected") =>
                    shown.filler = Str("None Detected")
    /\ ~Has(result, "better_alternative") =>
          /\ shown.alt_name = Str("No alternative suggested")
          /\ shown.alt_why = Str("")
    /\ (Has(result, "better_alternative")
          /\ IsDict(result[2]["better_alternative"])) =>
          LET alt == result[2]["better_alternative"]
          IN  /\ ~Has(alt, "product_name") =>
                    shown.alt_name = Str("No alternative found")
              /\ ~Has(alt, "why_more_honest") => shown.alt_why = Str("")
              /\ ~Has(alt, "estimated_score") => shown.alt_score = PyNone

\* C10: for a result record in which any subset of the fields, and of the
\* keys of each deduction, of product_analysis and of better_alternative, is
\* absent (the fields present having the types of the data model), the
\* rendering raises nothing and shows the default of each absent field.
C10_AbsentFieldsDefaulted ==
    FollowsSchema(result) =>
        /\ pc # "raised"
        /\ exc = NoExc
        /\ pc = "rendered" => DefaultsShown

\* C10 witness: the record with no field at all has been rendered with
\* every default
C10_Witness ==
    /\ result = Obj(<<>>)
    /\ pc = "rendered"
    /\ shown.product_type = Str("UNKNOWN")
    /\ shown.score = Num(0)
    /\ shown.alt_name = Str("No alternative suggested")

\* a record with a deduction, an analysis and an alternative that each lack
\* keys has been rendered
C10_NestedWitness ==
    /\ pc = "rendered"
    /\ Has(result, "deductions") /\ Truthy(result[2]["deductions"])
    /\ ~Has(result[2]["deductions"][2][1], "points")
    /\ Has(result, "product_analysis") /\ Truthy(result[2]["product_analysis"])
    /\ ~Has(result[2]["product_analysis"], "main_components")
    /\ Has(result, "better_alternative")
    /\ IsDict(result[2]["better_alternative"])
    /\ ~Has(result[2]["better_alternative"], "product_name")

-----------------------------------------------------------------------------
(* get_user_location.  What requests.get does is the input `geo`:          *)
(* <<"exception", type>> when the request raises, <<"response", status,    *)
(* body>> otherwise, where body is the decoded JSON value of the response  *)
(* or <<"invalid">> when response.json() raises.                           *)

\* the record of the final `return` of get_user_location
FallbackLocation ==
    [country_code  |-> Str("OTHER"),
     country_name  |-> Str("International"),
     city          |-> Str(""),
     full_location |-> Str("International")]

\* f"{city}, {country_name}"
CityCountry(city, country_name) == <<"fstr", city, ", ", country_name>>

\* the body of the try block: a return, an exception, or neither
LocationRequest(g) ==
    IF g[1] = "exception" THEN Raise(g[2], "requests.get")
    ELSE IF g[2] # 200 THEN Done(<<>>)
    ELSE IF g[3][1] = "invalid" THEN Raise("JSONDecodeError", "response.json")
    ELSE IF ~IsDict(g[3]) THEN Raise("AttributeError", "data.get")
    ELSE LET data         == g[3]
             country_code == dict_get(data, "country_code", Str("OTHER"))
             country_name == dict_get(data, "country_name", Str("International"))
             city         == dict_get(data, "city", Str(""))
         IN  Done(<<[country_code  |-> country_code,
                     country_name  |-> country_name,
                     city          |-> city,
                     full_location |-> IF Truthy(city)
                                       THEN CityCountry(city, country_name)
                                       ELSE country_name]>>)

\* mutant: `except requests.RequestException:` in place of the bare except:
\* an exception of response.json() or of data.get leaves the function
get_user_location_NarrowExcept(g) ==
    LET r == LocationRequest(g)
    IN  IF r.ok /\ r.out # <<>> THEN Done(r.out[1])
        ELSE IF ~r.ok /\ r.exc[2] # "requests.get" THEN r
        ELSE Done(FallbackLocation)

\* get_user_location(): the return of the try block when it returns; the
\* bare `except: pass` and the missing else lead to the final return
get_user_location(g) ==
    LET r == LocationRequest(g)
    IN  IF r.ok /\ r.out # <<>> THEN Done(r.out[1])
        ELSE Done(FallbackLocation)

\* the call of get_user_location
GetUserLocation ==
    /\ pc = "get_user_location"
    /\ LET r == get_user_location(geo)
       IN  IF r.ok
           THEN /\ ret' = <<"loc", r.out>>
                /\ pc' = "returned"
                /\ UNCHANGED exc
           ELSE /\ exc' = r.exc
                /\ pc' = "raised"
                /\ UNCHANGED ret
    /\ UNCHANGED <<response_text, text, pattern, result, shown>>
    /\ UNCHANGED <<sessionVars, pureVars>>

\* response bodies: every choice of the three keys read, and bodies that
\* are no object
LocationBodies ==
    {Obj(Sub([city |-> c, country_name |-> n, country_code |-> Str("FR")], S)) :
        c \in {Str("Paris"), Str(""), PyNone},
        n \in {Str("France"), Str("Japan")},
        S \in SUBSET {"city", "country_name", "country_code"}}
      \cup {<<"invalid">>, PyNone, Arr(<<>>), Str("error")}

GeoOutcomes ==
    {<<"exception", e>> : e \in {"ConnectionError", "Timeout"}}
      \cup {<<"response", st, b>> : st \in {200, 403, 429, 500},
                                    b \in LocationBodies}

InitLocation ==
    /\ geo \in GeoOutcomes
    /\ score_arg = 0
    /\ band = NoValue
    /\ response_text = <<>>
    /\ text = <<>>
    /\ pc = "get_user_location"
    /\ pattern = 0
    /\ ret = NoValue
    /\ exc = NoExc
    /\ result = NoValue
    /\ shown = NothingShown
    /\ SessionIdle

NextLocation == GetUserLocation

SpecLocation == InitLocation /\ [][NextLocation]_vars

-----------------------------------------------------------------------------
(* get_score_color applied to the integers of a range around 0..100 *)

MaxScore == 120

GetScoreColor ==
    /\ pc = "get_score_color"
    /\ band' = get_score_color(score_arg)
    /\ pc' = "returned"
    /\ UNCHANGED <<response_text, text, pattern, ret, exc, result, shown>>
    /\ UNCHANGED <<sessionVars, geo, score_arg>>

InitScore ==
    /\ score_arg \in (0 - MaxScore)..MaxScore
    /\ band = NoValue
    /\ geo = NoValue
    /\ response_text = <<>>
    /\ text = <<>>
    /\ pc = "get_score_color"
    /\ pattern = 0
    /\ ret = NoValue
    /\ exc = NoExc
    /\ result = NoValue
    /\ shown = NothingShown
    /\ SessionIdle

NextScore == GetScoreColor

SpecScore == InitScore /\ [][NextScore]_vars

-----------------------------------------------------------------------------
(* The page.  Streamlit runs the whole script once per user event; one     *)
(* action is one run, named after the event that caused it.  The keys of   *)
(* st.session_state are the variables user_location, captured_images and   *)
(* capture_step; before the first run they hold the values the first run   *)
(* finds or stores.                                                        *)

MaxPresses == 2
MaxUploads == 4

Photos == {"photo_a", "photo_b"}
Files  == {"file_a", "file_b"}

\* the sequences over S of length at most n
SeqsUpTo(S, n) == UNION {[1..k -> S] : k \in 0..n}

\* what the geolocation request does during a session
SessionGeo ==
    {<<"exception", "Timeout">>,
     <<"response", 200, Obj([city |-> Str("Paris"), country_name |-> Str("France"),
                             country_code |-> Str("FR")])>>,
     <<"response", 200, Obj([country_name |-> Str("France")])>>}

\* analyze_product(images, location): the body of the def is its docstring,
\* so the call returns None; the statements after it are module level
analyze_product(images, location) == Done(PyNone)

\* lines 598-641, run at module level on every run: with the key the if
\* branch configures the client; without it the else branch shows the
\* banner and goes on to `for img in images`, a name no module-level
\* statement binds
ModuleLevel(key) ==
    IF key THEN [banner |-> FALSE, r |-> Done(<<>>)]
    ELSE [banner |-> TRUE, r |-> Raise("NameError", "module")]

\* mutant: uploaded_files without the [:3]
product_images_NoLimit(method, captured, uploaded) ==
    IF method = "camera" THEN captured ELSE uploaded

\* product_images as the run computes it (lines 770, 822, 835-836)
product_images(method, captured, uploaded) ==
    IF method = "camera" THEN captured
    ELSE IF uploaded # <<>> THEN Take(uploaded, 3)
    ELSE <<>>

\* lines 875-954 of the scan handler: the blocks in order, the first
\* exception leaves the try block; result.get on a non-dict raises
RenderResult(r) ==
    IF ~IsDict(r) THEN Raise("AttributeError", "scan handler")
    ELSE LET blocks ==
                 <<render_identification(r),
                   render_score_card(dict_get(r, "score", Num(0)),
                                     dict_get(r, "verdict", Str("Unknown"))),
                   render_summary(r),
                   render_deductions_table(dict_get(r, "deductions", Arr(<<>>))),
                   render_product_analysis(r),
                   render_alternative(dict_get(r, "better_alternative",
                                               Str("No alternative suggested")))>>
             failing == {i \in 1..Len(blocks) : ~blocks[i].ok}
         IN  IF failing = {} THEN Done(<<>>) ELSE blocks[Min(failing)]

\* the message of the except branch that catches an exception of this type
ErrorMessage(type) ==
    IF type \in {"ValueError", "JSONDecodeError"} THEN "JSON Parsing Error"
    ELSE "Analysis Error"

sessionFrame == <<response_text, text, pc, pattern, ret, result, shown>>

\* the first run of the script in a session
FirstRun ==
    /\ page = "start"
    /\ LET m == ModuleLevel(api_key)
       IN  /\ banner' = m.banner
           /\ IF ~m.r.ok
              THEN /\ exc' = m.r.exc
                   /\ page' = "crashed"
                   /\ UNCHANGED <<user_location, lookups>>
              ELSE \E g \in SessionGeo :
                     LET l == get_user_location(g)
                     IN  /\ lookups' = lookups + 1
                         /\ IF l.ok
                            THEN /\ user_location' = <<"loc", l.out>>
                                 /\ page' = "rendered"
                                 /\ UNCHANGED exc
                            ELSE /\ exc' = l.exc
                                 /\ page' = "crashed"
                                 /\ UNCHANGED user_location
    /\ message' = "none"
    /\ UNCHANGED <<api_key, captured_images, capture_step, input_method,
                   uploaded_files, presses, calls, call_args>>
    /\ UNCHANGED <<sessionFrame, pureVars>>

\* the frame of a run that an input widget causes: the page is rendered
\* again, the scan handler is not entered
WidgetRun ==
    /\ page = "rendered"
    /\ message' = "none"
    /\ UNCHANGED <<api_key, page, banner, user_location, presses, calls,
                   lookups, call_args, exc>>
    /\ UNCHANGED <<sessionFrame, pureVars>>

\* the radio: the file uploader is not drawn in camera mode and loses its
\* files
SelectMethod(m) ==
    /\ WidgetRun
    /\ m # input_method
    /\ input_method' = m
    /\ uploaded_files' = IF m = "camera" THEN <<>> ELSE uploaded_files
    /\ UNCHANGED <<captured_images, capture_step>>

\* mutant: the camera is drawn whatever the number of photos held
CapturePhoto_NoLimit(new_photo) ==
    /\ WidgetRun
    /\ input_method = "camera"
    /\ captured_images' = Append(captured_images, new_photo)
    /\ capture_step' = capture_step + 1
    /\ UNCHANGED <<input_method, uploaded_files>>

\* the camera input returns a photo (lines 796-811)
CapturePhoto(new_photo) ==
    /\ WidgetRun
    /\ input_method = "camera"
    /\ Len(captured_images) < 3
    /\ captured_images' = Append(captured_images, new_photo)
    /\ capture_step' = capture_step + 1
    /\ UNCHANGED <<input_method, uploaded_files>>

\* mutant: the list is emptied, the step is kept
ClearRetake_KeepStep ==
    /\ WidgetRun
    /\ input_method = "camera"
    /\ captured_images # <<>>
    /\ captured_images' = <<>>
    /\ UNCHANGED <<capture_step, input_method, uploaded_files>>

\* the "Clear & Retake" button, drawn while photos are held (lines 775-788)
ClearRetake ==
    /\ WidgetRun
    /\ input_method = "camera"
    /\ captured_images # <<>>
    /\ captured_images' = <<>>
    /\ capture_step' = 1
    /\ UNCHANGED <<input_method, uploaded_files>>

\* the "Skip" button, drawn between the first and the third photo: pass
Skip ==
    /\ WidgetRun
    /\ input_method = "camera"
    /\ Len(captured_images) >= 1
    /\ Len(captured_images) < 3
    /\ UNCHANGED <<captured_images, capture_step, input_method, uploaded_files>>

\* the file uploader changes its list of files
Upload(files) ==
    /\ WidgetRun
    /\ input_method = "upload"
    /\ files # uploaded_files
    /\ uploaded_files' = files
    /\ UNCHANGED <<captured_images, capture_step, input_method>>

\* mutant: a failed analysis is tried a second time before the message
ScanHandler_Retry(images, location) ==
    LET a      == analyze_product(images, location)
        shownr == IF a.ok THEN RenderResult(a.out) ELSE a
    IN  [calls   |-> IF shownr.ok THEN 1 ELSE 2,
         cleared |-> a.ok,
         message |-> IF shownr.ok THEN "Analysis Results"
                     ELSE ErrorMessage(shownr.exc[1]),
         exc     |-> shownr.exc]

\* the try statement of the scan handler (lines 866-969): one call of
\* analyze_product; when it returns, the photos are cleared and the result
\* is displayed; an exception of either is caught by one of the two except
\* branches, which show a message
ScanHandler(images, location) ==
    LET a      == analyze_product(images, location)
        shownr == IF a.ok THEN RenderResult(a.out) ELSE a
    IN  [calls   |-> 1,
         cleared |-> a.ok,
         message |-> IF shownr.ok THEN "Analysis Results"
                     ELSE ErrorMessage(shownr.exc[1]),
         exc     |-> shownr.exc]

\* the "SCAN FOR HONESTY" button, enabled while product_images is not empty,
\* and the handler of lines 861-969
Scan ==
    /\ page = "rendered"
    /\ presses < MaxPresses
    /\ product_images(input_method, captured_images, uploaded_files) # <<>>
    /\ presses' = presses + 1
    /\ \E g \in SessionGeo :
         LET images   == product_images(input_method, captured_images,
                                        uploaded_files)
             \* line 863: the default argument of session_state.get is
             \* evaluated before the key is looked up
             default  == get_user_location(g)
             location == IF user_location[1] = "loc" THEN user_location[2]
                         ELSE default.out
             h        == ScanHandler(images, location.full_location)
         IN  IF Len(images) > 0
             THEN /\ lookups' = lookups + 1
                  /\ IF ~default.ok
                     THEN /\ exc' = default.exc
                          /\ page' = "crashed"
                          /\ message' = "none"
                          /\ UNCHANGED <<calls, call_args, captured_images,
                                         capture_step>>
                     ELSE /\ calls' = calls + h.calls
                          /\ call_args' = <<"call", images, location.full_location>>
                          /\ IF h.cleared
                             THEN /\ captured_images' = <<>>
                                  /\ capture_step' = 1
                             ELSE UNCHANGED <<captured_images, capture_step>>
                          /\ message' = h.message
                          /\ exc' = h.exc
                          /\ UNCHANGED page
             ELSE /\ message' = "none"
                  /\ UNCHANGED <<lookups, calls, call_args, captured_images,
                                 capture_step, exc, page>>
    /\ UNCHANGED <<api_key, banner, user_location, input_method, uploaded_files>>
    /\ UNCHANGED <<sessionFrame, pureVars>>

Init ==
    /\ api_key \in BOOLEAN
    /\ page = "start"
    /\ banner = FALSE
    /\ user_location = NoValue
    /\ captured_images = <<>>
    /\ capture_step = 1
    /\ input_method = "camera"
    /\ uploaded_files = <<>>
    /\ message = "none"
    /\ presses = 0
    /\ calls = 0
    /\ lookups = 0
    /\ call_args = NoValue
    /\ response_text = <<>>
    /\ text = <<>>
    /\ pc = "page"
    /\ pattern = 0
    /\ ret = NoValue
    /\ exc = NoExc
    /\ result = NoValue
    /\ shown = NothingShown
    /\ PureIdle

Next ==
    \/ FirstRun
    \/ \E m \in {"camera", "upload"} : SelectMethod(m)
    \/ \E new_photo \in Photos : CapturePhoto(new_photo)
    \/ ClearRetake
    \/ Skip
    \/ \E files \in SeqsUpTo(Files, MaxUploads) : Upload(files)
    \/ Scan

Spec == Init /\ [][Next]_vars

-----------------------------------------------------------------------------
(* Claims about the page, checked under Spec *)

\* the messages of the two except branches of the scan handler
FailureMessages == {"JSON Parsing Error", "Analysis Error"}

\* this step is a press of the scan button that ended in a failure message
ScanFailed == presses' = presses + 1 /\ message' \in FailureMessages

\* C11: whenever a scan ends in a failure message (from the upstream call,
\* from extraction or from displaying the result), captured_images is the
\* same after the scan as before it
C11_ImagesKeptOnFailure ==
    [][ScanFailed => captured_images' = captured_images]_vars

\* C12: captured_images never holds more than 3 images; the list grows only
\* by one image and only from fewer than 3; whenever it shrinks (Clear &
\* Retake, or the clearing of a scan) it becomes empty
C12_AtMostThree ==
    /\ [](Len(captured_images) <= 3)
    /\ [][/\ Len(captured_images') > Len(captured_images)
               => /\ Len(captured_images) < 3
                  /\ \E p \in Photos :
                         captured_images' = Append(captured_images, p)
          /\ Len(captured_images') < Len(captured_images)
               => captured_images' = <<>>]_vars

\* the third photo has been captured, and a further run has left it there
C12_Witness ==
    /\ Len(captured_images) = 3
    /\ input_method = "upload"

\* no image is available to the scan button
NoImage ==
    \/ input_method = "camera" /\ captured_images = <<>>
    \/ input_method = "upload" /\ uploaded_files = <<>>

\* q is the sequence of the first n elements of s, in order (all of s when
\* s is shorter)
FirstOf(q, s, n) ==
    /\ Len(q) = (IF Len(s) < n THEN Len(s) ELSE n)
    /\ \A i \in 1..Len(q) : q[i] = s[i]

\* C13: every call of the analysis gets between 1 and 3 images: no step
\* calls it while no image is available, an upload is passed as its first
\* three files in order, and the camera list is passed as it is, never
\* longer than 3
C13_OneToThreeImages ==
    /\ [](call_args[1] = "call" => Len(call_args[2]) \in 1..3)
    /\ [][/\ NoImage => calls' = calls /\ call_args' = call_args
          /\ calls' # calls
               => /\ calls' = calls + 1
                  /\ input_method = "upload"
                       => FirstOf(call_args'[2], uploaded_files, 3)
                  /\ input_method = "camera"
                       => /\ call_args'[2] = captured_images
                          /\ Len(captured_images) <= 3]_vars

\* a scan of four uploaded files has passed three of them
C13_Witness ==
    /\ call_args[1] = "call"
    /\ input_method = "upload"
    /\ Len(uploaded_files) = 4
    /\ uploaded_files[1] # uploaded_files[2]
    /\ call_args[2] = SubSeq(uploaded_files, 1, 3)

-----------------------------------------------------------------------------
(* Claims about get_user_location, checked under SpecLocation *)

\* the lookup failed: the request raised, the status is not 200, or the
\* body does not decode to an object
LookupFailed ==
    \/ geo[1] = "exception"
    \/ geo[1] = "response" /\ geo[2] # 200
    \/ geo[1] = "response" /\ geo[3][1] # "obj"

\* the value of key k of the response body, d when the body has no such key
BodyField(k, d) == IF k \in DOMAIN geo[3][2] THEN geo[3][2][k] ELSE d

\* a string that is not empty
NonEmptyStr(v) == v[1] = "str" /\ v[2] # ""

\* C14: get_user_location never raises; when the lookup fails it returns the
\* fallback record ('OTHER', 'International'); when it succeeds,
\* full_location is "city, country" for a non-empty city and the country
\* name alone for an empty or missing one
C14_LocationNeverRaises ==
    /\ pc # "raised"
    /\ pc = "returned" =>
         /\ ret[1] = "loc"
         /\ LookupFailed =>
              /\ ret[2].country_code = Str("OTHER")
              /\ ret[2].country_name = Str("International")
              /\ ret[2].city = Str("")
              /\ ret[2].full_location = Str("International")
         /\ ~LookupFailed =>
              LET city    == BodyField("city", Str(""))
                  country == BodyField("country_name", Str("International"))
              IN  /\ NonEmptyStr(city) =>
                        ret[2].full_location = <<"fstr", city, ", ", country>>
                  /\ city \in {Str(""), PyNone} =>
                        ret[2].full_location = country

\* the decoding of a 200 response raised and the fallback was returned
C14_Witness ==
    /\ pc = "returned"
    /\ geo[1] = "response"
    /\ geo[2] = 200
    /\ geo[3][1] \in {"invalid", "null", "arr"}
    /\ ret[2].country_code = Str("OTHER")

\* a successful lookup with a city returned "city, country"
C14_CityWitness ==
    /\ pc = "returned"
    /\ ~LookupFailed
    /\ ret[1] = "loc"
    /\ ret[2].full_location = <<"fstr", Str("Paris"), ", ", Str("Japan")>>

-----------------------------------------------------------------------------
(* Claims about the page, checked under Spec (continued) *)

\* C15: when GEMINI_API_KEY is absent, a run of the page shows the error
\* banner and does not crash: the page is rendered (with its scan button)
C15_MissingKeyNotFatal ==
    (~api_key /\ page # "start") => (banner /\ page = "rendered")

-----------------------------------------------------------------------------
(* Claims about get_score_color, checked under SpecScore *)

\* C17: get_score_color puts every integer score in exactly one band, with
\* the thresholds of the rubric: 80 and above green / HONEST PRODUCT, 50 to
\* 79 orange / SUSPICIOUS, 49 and below red / HIGH DECEPTION; scores above
\* 100 and below 0 get the band of their side, they are not clamped or
\* rejected
C17_ScoreBands ==
    pc = "returned" =>
        /\ score_arg >= 80 <=> band = <<"green", "HONEST PRODUCT">>
        /\ (score_arg >= 50 /\ score_arg <= 79) <=> band = <<"orange", "SUSPICIOUS">>
        /\ score_arg <= 49 <=> band = <<"red", "HIGH DECEPTION">>

\* a score on a threshold has got its band
C17_Witness ==
    /\ pc = "returned"
    /\ score_arg = 80
    /\ band = <<"green", "HONEST PRODUCT">>

\* scores outside 0..100 have got a band
C17_AboveWitness ==
    /\ pc = "returned"
    /\ score_arg = 101
    /\ band = <<"green", "HONEST PRODUCT">>

C17_BelowWitness ==
    /\ pc = "returned"
    /\ score_arg = 0 - 1
    /\ band = <<"red", "HIGH DECEPTION">>

-----------------------------------------------------------------------------
(* Claims about the page, checked under Spec (continued) *)

\* C18: in every reachable state of the session, capture_step is the
\* number of captured images plus one
C18_StepFollowsImages ==
    capture_step = Len(captured_images) + 1

\* after a scan has reset them, two photos have been captured again
C18_Witness ==
    /\ Len(captured_images) = 2
    /\ capture_step = 3
    /\ presses = 1

\* a scan has reset the list and the step together
C18_ScanWitness ==
    /\ presses = 1
    /\ input_method = "camera"
    /\ call_args[1] = "call"
    /\ Len(call_args[2]) = 3
    /\ captured_images = <<>>
    /\ capture_step = 1

\* C19: get_user_location is called at most once in a session (no run after
\* the one that stored user_location calls it), and every call of the
\* analysis gets the stored location
C19_LookupOnce ==
    /\ lookups <= 1
    /\ call_args[1] = "call" => /\ user_location[1] = "loc"
                                /\ call_args[3] = user_location[2].full_location

====
